---- MODULE Spec2Model ----
(***************************************************************************)
(* Model of llm_playground/utils.py: the timestamp formatter               *)
(* timestamp_str and the closure returned by                               *)
(* retry_with_exponential_backoff.                                         *)
(*                                                                         *)
(* Strings are sequences of one-character strings.  Floats are exact       *)
(* rationals <<numerator, denominator>> with a positive denominator.       *)
(***************************************************************************)
EXTENDS Integers, Sequences, FiniteSets, TLC

VARIABLES
    max_retries,        \* decorator argument (utils.py:24)
    initial_sleep_time, \* decorator argument (utils.py:25), a rational
    backoff_factor,     \* decorator argument (utils.py:26), a rational
    msgs,               \* the messages the wrapped func can fail with
    pc,                 \* pc[c]: position of call c inside wrapper
    sleep_time,         \* sleep_time[c]: the local of call c (utils.py:53)
    attempt,            \* attempt[c]: iterations of the for loop begun by c
    args,               \* args[c]: the arguments call c was made with
    log,                \* log[c]: what call c did so far, in order
    result,             \* result[c]: how call c ended
    now,                \* the UTC wall clock: <<Y, M, D, h, m, s>>
    ticks,              \* how many times the clock was advanced
    stamps              \* the timestamps handed out so far, oldest first

vars == <<max_retries, initial_sleep_time, backoff_factor, msgs, pc,
          sleep_time, attempt, args, log, result, now, ticks, stamps>>

wrapperVars == <<max_retries, initial_sleep_time, backoff_factor, msgs, pc,
                 sleep_time, attempt, args, log, result>>

clockVars == <<now, ticks, stamps>>

----------------------------------------------------------------------------
(* Bounds *)

NumCalls == 2
MaxRetries == 3
MaxStamps == 2
MaxTicks == 3

Calls == 1..NumCalls

----------------------------------------------------------------------------
(* Characters and strings *)

UpperCase == <<"A","B","C","D","E","F","G","H","I","J","K","L","M",
               "N","O","P","Q","R","S","T","U","V","W","X","Y","Z">>

LowerCase == <<"a","b","c","d","e","f","g","h","i","j","k","l","m",
               "n","o","p","q","r","s","t","u","v","w","x","y","z">>

Digits == <<"0","1","2","3","4","5","6","7","8","9">>

\* str.lower() on one character
CharLower(ch) ==
    IF \E i \in 1..26 : UpperCase[i] = ch
    THEN LowerCase[CHOOSE i \in 1..26 : UpperCase[i] = ch]
    ELSE ch

\* str.lower()
StrLower(s) == [i \in 1..Len(s) |-> CharLower(s[i])]

\* str.replace(old, new) for one-character old and new
StrReplace(s, old, new) ==
    [i \in 1..Len(s) |-> IF s[i] = old THEN new ELSE s[i]]

\* sub in s
StrContains(sub, s) ==
    \E i \in 0..(Len(s) - Len(sub)) : SubSeq(s, i + 1, i + Len(sub)) = sub

RECURSIVE NatToStr(_)
NatToStr(n) ==
    IF n < 10 THEN <<Digits[n + 1]>>
    ELSE NatToStr(n \div 10) \o <<Digits[(n % 10) + 1]>>

\* str(n) / f"{n}" for an int
IntToStr(n) == IF n < 0 THEN <<"-">> \o NatToStr(0 - n) ELSE NatToStr(n)

----------------------------------------------------------------------------
(* Rationals *)

RatMul(a, b) == <<a[1] * b[1], a[2] * b[2]>>

RatEq(a, b) == a[1] * b[2] = b[1] * a[2]

RatLess(a, b) == a[1] * b[2] < b[1] * a[2]

RECURSIVE RatPow(_, _)
RatPow(a, n) == IF n = 0 THEN <<1, 1>> ELSE RatMul(RatPow(a, n - 1), a)

----------------------------------------------------------------------------
(* The wrapped operation: what it can raise, return and be given *)

RateLimitLower == <<"r","a","t","e"," ","l","i","m","i","t">>

RateLimitUpper == <<"R","A","T","E","_","L","I","M","I","T">>

RateLimitExceeded == <<"R","a","t","e"," ","L","i","m","i","t"," ",
                       "e","x","c","e","e","d","e","d">>

RateLimitNoSep == <<"r","a","t","e","l","i","m","i","t">>

Timeout == <<"t","i","m","e","o","u","t">>

\* messages of the operation when several calls run together
OpMessages == {RateLimitUpper, RateLimitNoSep}

\* messages of an operation that fails in more than one way
MixedMessages == {RateLimitLower, RateLimitUpper, RateLimitExceeded, Timeout}

\* messages of an operation that is rate limited in two wordings
RetryableMessages == {RateLimitLower, RateLimitExceeded}

\* near misses and hits of the phrase, built from parts
ClassifyMessages ==
    { pre \o w1 \o sep \o w2 \o suf :
        pre \in {<<>>, <<"4","2","9","_">>},
        w1  \in {<<"r","a","t","e">>, <<"R","A","T","E">>, <<"r","a","t">>},
        sep \in {<<" ">>, <<"_">>, <<>>, <<"-">>, <<" ","_">>},
        w2  \in {<<"l","i","m","i","t">>, <<"L","i","m","i","t">>,
                 <<"l","i","m","t">>},
        suf \in {<<>>, <<" ","e","x","c","e","e","d","e","d">>} }
    \cup {RateLimitLower, RateLimitUpper, RateLimitExceeded, RateLimitNoSep,
          Timeout, <<>>}

Results == {"r1", "r2"}

Arguments == {"a1", "a2"}

SleepTimes == {<<1, 1>>, <<1, 2>>}

Factors == {<<3, 2>>, <<2, 1>>}

\* <<initial_sleep_time, backoff_factor>> when several calls run together:
\* the defaults, and a smaller start with a larger factor
ConcurrentConfigs == {<< <<1, 1>>, <<3, 2>> >>, << <<1, 2>>, <<2, 1>> >>}

----------------------------------------------------------------------------
(* retry_with_exponential_backoff.wrapper *)

IsRateLimitAny(e) == TRUE

IsRateLimitNoReplace(e) == StrContains(RateLimitLower, StrLower(e.msg))

\* "rate limit" in str(e).lower().replace("_", " ")
IsRateLimit(e) ==
    StrContains(RateLimitLower, StrReplace(StrLower(e.msg), "_", " "))

NextSleepTimeCapped(st) ==
    IF RatLess(<<3, 1>>, RatMul(st, backoff_factor))
    THEN <<3, 1>>
    ELSE RatMul(st, backoff_factor)

\* sleep_time *= backoff_factor
NextSleepTime(st) == RatMul(st, backoff_factor)

StartSleepTimeShared(c) ==
    LET others == {d \in Calls \ {c} : pc[d] # "idle"}
    IN  IF others = {} THEN initial_sleep_time
        ELSE sleep_time[CHOOSE d \in others : TRUE]

\* sleep_time = initial_sleep_time
StartSleepTime(c) == initial_sleep_time

MaxRetriesErrorNoCount ==
    [src |-> "wrapper", at |-> 0,
     msg |-> <<"M","a","x","i","m","u","m"," ","r","e","t","r","i","e","s",
               " ","e","x","c","e","e","d","e","d">>]

MaxRetriesErrorRateLimit ==
    [src |-> "wrapper", at |-> 0,
     msg |-> <<"R","a","t","e"," ","l","i","m","i","t",":"," ">>
             \o IntToStr(max_retries)
             \o <<" ","r","e","t","r","i","e","s">>]

\* Exception(f"Maximum retries {max_retries} exceeded")
MaxRetriesError ==
    [src |-> "wrapper", at |-> 0,
     msg |-> <<"M","a","x","i","m","u","m"," ","r","e","t","r","i","e","s"," ">>
             \o IntToStr(max_retries)
             \o <<" ","e","x","c","e","e","d","e","d">>]

LoopContinuesOneMore(c) == attempt[c] <= max_retries

LoopContinuesAtLeastOnce(c) == attempt[c] = 0 \/ attempt[c] < max_retries

\* for _ in range(max_retries): is there another iteration
LoopContinues(c) == attempt[c] < max_retries

\* no exception
NoExc == [src |-> "none", at |-> 0, msg |-> <<>>]

\* log entry: func was called with a; it returned v (ok) or raised e
Invoked(a, ok, v, e) ==
    [ev |-> "invoke", args |-> a, ok |-> ok, val |-> v, exc |-> e,
     delay |-> <<0, 1>>]

\* log entry: time.sleep(d) was called
Waited(d) ==
    [ev |-> "wait", args |-> "none", ok |-> FALSE, val |-> "none",
     exc |-> NoExc, delay |-> d]

ReturnedNone(v) == [kind |-> "return", val |-> "None", exc |-> NoExc]

\* return func(*args, **kwargs)
Returned(v) == [kind |-> "return", val |-> v, exc |-> NoExc]

RaisedWrapped(e) ==
    [kind |-> "raise", val |-> "none",
     exc |-> [src |-> "wrapper", at |-> 0, msg |-> e.msg]]

\* raise e
Raised(e) == [kind |-> "raise", val |-> "none", exc |-> e]

ForwardedArgsFirstOnly(c) == IF attempt[c] = 0 THEN args[c] ELSE "none"

\* the *args, **kwargs of func(*args, **kwargs)
ForwardedArgs(c) == args[c]

\* wrapper(*args, **kwargs) is entered
Call(c) ==
    /\ pc[c] = "idle"
    /\ \E a \in Arguments : args' = [args EXCEPT ![c] = a]
    /\ sleep_time' = [sleep_time EXCEPT ![c] = StartSleepTime(c)]
    /\ pc' = [pc EXCEPT ![c] = "loop"]
    /\ UNCHANGED <<max_retries, initial_sleep_time, backoff_factor, msgs,
                   attempt, log, result>>
    /\ UNCHANGED clockVars

\* one iteration of the loop in which func returns v
InvokeReturns(c) ==
    /\ pc[c] = "loop"
    /\ LoopContinues(c)
    /\ \E v \in Results :
        /\ log' = [log EXCEPT ![c] =
                      Append(@, Invoked(ForwardedArgs(c), TRUE, v, NoExc))]
        /\ result' = [result EXCEPT ![c] = Returned(v)]
    /\ attempt' = [attempt EXCEPT ![c] = @ + 1]
    /\ pc' = [pc EXCEPT ![c] = "returned"]
    /\ UNCHANGED <<max_retries, initial_sleep_time, backoff_factor, msgs,
                   sleep_time, args>>
    /\ UNCHANGED clockVars

\* one iteration of the loop in which func raises e: the except clause,
\* up to the call of time.sleep or the raise
InvokeRaises(c) ==
    /\ pc[c] = "loop"
    /\ LoopContinues(c)
    /\ attempt' = [attempt EXCEPT ![c] = @ + 1]
    /\ \E m \in msgs :
        LET e == [src |-> "func", at |-> attempt[c] + 1, msg |-> m]
            inv == Invoked(ForwardedArgs(c), FALSE, "none", e)
        IN  IF IsRateLimit(e)
            THEN /\ sleep_time' =
                        [sleep_time EXCEPT ![c] = NextSleepTime(@)]
                 /\ log' = [log EXCEPT ![c] = @ \o
                        <<inv, Waited(sleep_time'[c])>>]
                 /\ pc' = [pc EXCEPT ![c] = "sleep"]
                 /\ UNCHANGED result
            ELSE /\ log' = [log EXCEPT ![c] = Append(@, inv)]
                 /\ result' = [result EXCEPT ![c] = Raised(e)]
                 /\ pc' = [pc EXCEPT ![c] = "raised"]
                 /\ UNCHANGED sleep_time
    /\ UNCHANGED <<max_retries, initial_sleep_time, backoff_factor, msgs,
                   args>>
    /\ UNCHANGED clockVars

\* time.sleep(sleep_time) returns
Wake(c) ==
    /\ pc[c] = "sleep"
    /\ pc' = [pc EXCEPT ![c] = "loop"]
    /\ UNCHANGED <<max_retries, initial_sleep_time, backoff_factor, msgs,
                   sleep_time, attempt, args, log, result>>
    /\ UNCHANGED clockVars

\* the exception of the last failed invocation of call c, if any
LastFailure(c) ==
    LET f == SelectSeq(log[c], LAMBDA x : x.ev = "invoke" /\ ~x.ok)
    IN  IF f = <<>> THEN NoExc ELSE f[Len(f)].exc

ExhaustedReraises(c) ==
    /\ pc[c] = "loop"
    /\ ~LoopContinues(c)
    /\ result' = [result EXCEPT ![c] =
            IF LastFailure(c) = NoExc THEN Raised(MaxRetriesError)
            ELSE Raised(LastFailure(c))]
    /\ pc' = [pc EXCEPT ![c] = "raised"]
    /\ UNCHANGED <<max_retries, initial_sleep_time, backoff_factor, msgs,
                   sleep_time, attempt, args, log>>
    /\ UNCHANGED clockVars

ExhaustedAppendsLast(c) ==
    /\ pc[c] = "loop"
    /\ ~LoopContinues(c)
    /\ result' = [result EXCEPT ![c] =
            Raised([MaxRetriesError EXCEPT
                        !.msg = @ \o <<":", " ">> \o LastFailure(c).msg])]
    /\ pc' = [pc EXCEPT ![c] = "raised"]
    /\ UNCHANGED <<max_retries, initial_sleep_time, backoff_factor, msgs,
                   sleep_time, attempt, args, log>>
    /\ UNCHANGED clockVars

\* the loop is over: raise Exception(f"Maximum retries ... exceeded")
Exhausted(c) ==
    /\ pc[c] = "loop"
    /\ ~LoopContinues(c)
    /\ result' = [result EXCEPT ![c] = Raised(MaxRetriesError)]
    /\ pc' = [pc EXCEPT ![c] = "raised"]
    /\ UNCHANGED <<max_retries, initial_sleep_time, backoff_factor, msgs,
                   sleep_time, attempt, args, log>>
    /\ UNCHANGED clockVars

NoResult == [kind |-> "none", val |-> "none", exc |-> NoExc]

InitWrapper ==
    /\ max_retries \in (0 - 1)..MaxRetries
    /\ initial_sleep_time \in SleepTimes
    /\ backoff_factor \in Factors
    /\ pc = [c \in Calls |-> "idle"]
    /\ sleep_time = [c \in Calls |-> <<0, 1>>]
    /\ attempt = [c \in Calls |-> 0]
    /\ args = [c \in Calls |-> "none"]
    /\ log = [c \in Calls |-> <<>>]
    /\ result = [c \in Calls |-> NoResult]

InitClock ==
    /\ now = <<2024, 3, 7, 14, 23, 5>>
    /\ ticks = 0
    /\ stamps = <<>>

(* Several calls of one wrapper, from different threads or in a row *)

Init ==
    /\ InitWrapper
    /\ <<initial_sleep_time, backoff_factor>> \in ConcurrentConfigs
    /\ msgs = OpMessages
    /\ InitClock

Next ==
    \E c \in Calls :
        \/ Call(c)
        \/ InvokeReturns(c)
        \/ InvokeRaises(c)
        \/ Wake(c)
        \/ Exhausted(c)

Spec == Init /\ [][Next]_vars

(* One call of the wrapper, for each operation *)

InitSingle ==
    /\ InitWrapper
    /\ msgs \in {{m} : m \in ClassifyMessages} \cup {MixedMessages}
    /\ InitClock

Running(c) ==
    \/ InvokeReturns(c)
    \/ InvokeRaises(c)
    \/ Wake(c)
    \/ Exhausted(c)

NextSingle ==
    \/ Call(1)
    \/ Running(1)

SpecSingle == InitSingle /\ [][NextSingle]_vars

\* a call that was made keeps running: func and time.sleep return
FairSpecSingle == SpecSingle /\ WF_vars(Running(1))

(* Two calls of one wrapper, of an operation that is always rate limited *)

Pair == {1, 2}

InitPair ==
    /\ InitWrapper
    /\ <<initial_sleep_time, backoff_factor>> \in ConcurrentConfigs
    /\ msgs = RetryableMessages
    /\ InitClock

NextPair ==
    \E c \in Pair :
        \/ Call(c)
        \/ InvokeReturns(c)
        \/ InvokeRaises(c)
        \/ Wake(c)
        \/ Exhausted(c)

SpecPair == InitPair /\ [][NextPair]_vars

(* A wrapper around a wrapper: retry_with_exponential_backoff applied to *)
(* its own result, both with the same parameters.  Call Outer is a call  *)
(* of the outer wrapper; its func is the inner wrapper, whose call is    *)
(* call Inner, entered anew at each attempt of Outer.  log[Inner] keeps  *)
(* the invocations of the operation by all calls of the inner wrapper.   *)

Outer == 1

Inner == 2

\* Outer: func(*args, **kwargs) enters the inner wrapper
OuterInvokes ==
    /\ pc[Outer] = "loop"
    /\ LoopContinues(Outer)
    /\ attempt' = [attempt EXCEPT ![Outer] = @ + 1, ![Inner] = 0]
    /\ args' = [args EXCEPT ![Inner] = ForwardedArgs(Outer)]
    /\ sleep_time' = [sleep_time EXCEPT ![Inner] = StartSleepTime(Inner)]
    /\ result' = [result EXCEPT ![Inner] = NoResult]
    /\ pc' = [pc EXCEPT ![Outer] = "calling", ![Inner] = "loop"]
    /\ UNCHANGED <<max_retries, initial_sleep_time, backoff_factor, msgs,
                   log>>
    /\ UNCHANGED clockVars

\* Outer: return func(*args, **kwargs), the inner wrapper having returned
InnerReturned ==
    /\ pc[Outer] = "calling"
    /\ pc[Inner] = "returned"
    /\ log' = [log EXCEPT ![Outer] = Append(@,
                  Invoked(ForwardedArgs(Outer), TRUE, result[Inner].val,
                          NoExc))]
    /\ result' = [result EXCEPT ![Outer] = Returned(result[Inner].val)]
    /\ pc' = [pc EXCEPT ![Outer] = "returned"]
    /\ UNCHANGED <<max_retries, initial_sleep_time, backoff_factor, msgs,
                   sleep_time, attempt, args>>
    /\ UNCHANGED clockVars

\* Outer: the except clause, the inner wrapper having raised
InnerRaised ==
    /\ pc[Outer] = "calling"
    /\ pc[Inner] = "raised"
    /\ LET e == result[Inner].exc
           inv == Invoked(ForwardedArgs(Outer), FALSE, "none", e)
       IN  IF IsRateLimit(e)
           THEN /\ sleep_time' =
                       [sleep_time EXCEPT ![Outer] = NextSleepTime(@)]
                /\ log' = [log EXCEPT ![Outer] = @ \o
                       <<inv, Waited(sleep_time'[Outer])>>]
                /\ pc' = [pc EXCEPT ![Outer] = "sleep"]
                /\ UNCHANGED result
           ELSE /\ log' = [log EXCEPT ![Outer] = Append(@, inv)]
                /\ result' = [result EXCEPT ![Outer] = Raised(e)]
                /\ pc' = [pc EXCEPT ![Outer] = "raised"]
                /\ UNCHANGED sleep_time
    /\ UNCHANGED <<max_retries, initial_sleep_time, backoff_factor, msgs,
                   attempt, args>>
    /\ UNCHANGED clockVars

InitNested ==
    /\ InitWrapper
    /\ msgs \in {{RateLimitUpper}, OpMessages, MixedMessages}
    /\ InitClock

NextNested ==
    \/ OuterInvokes
    \/ InnerReturned
    \/ InnerRaised
    \/ \E c \in {Outer, Inner} :
        \/ c = Outer /\ Call(c)
        \/ c = Inner /\ InvokeReturns(c)
        \/ c = Inner /\ InvokeRaises(c)
        \/ Wake(c)
        \/ Exhausted(c)

SpecNested == InitNested /\ [][NextNested]_vars

----------------------------------------------------------------------------
(* timestamp_str *)

IsLeap(y) == (y % 4 = 0 /\ y % 100 # 0) \/ y % 400 = 0

DaysInMonth(y, m) ==
    IF m = 2 THEN (IF IsLeap(y) THEN 29 ELSE 28)
    ELSE IF m \in {4, 6, 9, 11} THEN 30 ELSE 31

AddDay(t) ==
    IF t[3] < DaysInMonth(t[1], t[2])
    THEN <<t[1], t[2], t[3] + 1, t[4], t[5], t[6]>>
    ELSE IF t[2] < 12
         THEN <<t[1], t[2] + 1, 1, t[4], t[5], t[6]>>
         ELSE <<t[1] + 1, 1, 1, t[4], t[5], t[6]>>

AddHour(t) ==
    IF t[4] < 23
    THEN <<t[1], t[2], t[3], t[4] + 1, t[5], t[6]>>
    ELSE AddDay(<<t[1], t[2], t[3], 0, t[5], t[6]>>)

AddMinute(t) ==
    IF t[5] < 59
    THEN <<t[1], t[2], t[3], t[4], t[5] + 1, t[6]>>
    ELSE AddHour(<<t[1], t[2], t[3], t[4], 0, t[6]>>)

AddSecond(t) ==
    IF t[6] < 59
    THEN <<t[1], t[2], t[3], t[4], t[5], t[6] + 1>>
    ELSE AddMinute(<<t[1], t[2], t[3], t[4], t[5], 0>>)

\* instants shortly before a field rolls over
StartInstants ==
    { <<1999, 12, 31, 23, 59, 58>>,
      <<2009, 9, 30, 9, 59, 59>>,
      <<2023, 2, 28, 23, 59, 59>>,
      <<2024, 2, 28, 23, 59, 59>>,
      <<2024, 3, 7, 14, 23, 5>>,
      <<2024, 9, 9, 9, 9, 9>>,
      <<9999, 12, 30, 23, 59, 59>> }

Pad2NoPad(n) == NatToStr(n)

\* a two-digit, zero-padded field: %m %d %H %M %S
Pad2(n) == IF n < 10 THEN <<"0">> \o NatToStr(n) ELSE NatToStr(n)

\* strftime(TIMESTAMP_FORMAT), TIMESTAMP_FORMAT = "%Y-%m-%d_%H%M%S"
\* (%Y is the year in decimal, not padded by glibc)
Strftime(t) ==
    NatToStr(t[1]) \o <<"-">> \o Pad2(t[2]) \o <<"-">> \o Pad2(t[3])
    \o <<"_">> \o Pad2(t[4]) \o Pad2(t[5]) \o Pad2(t[6])

\* real time passes
Tick ==
    /\ ticks < MaxTicks
    /\ \E t \in {AddSecond(now), AddMinute(now), AddHour(now), AddDay(now)} :
        /\ t[1] <= 9999   \* datetime.MAXYEAR
        /\ now' = t
    /\ ticks' = ticks + 1
    /\ UNCHANGED stamps
    /\ UNCHANGED wrapperVars

\* datetime.datetime.now(datetime.timezone.utc).strftime(TIMESTAMP_FORMAT)
TimestampStr ==
    /\ Len(stamps) < MaxStamps
    /\ stamps' = Append(stamps, [t |-> now, s |-> Strftime(now)])
    /\ UNCHANGED <<now, ticks>>
    /\ UNCHANGED wrapperVars

InitClockSpec ==
    /\ max_retries = 20
    /\ initial_sleep_time = <<1, 1>>
    /\ backoff_factor = <<3, 2>>
    /\ msgs = {}
    /\ pc = [c \in Calls |-> "idle"]
    /\ sleep_time = [c \in Calls |-> <<0, 1>>]
    /\ attempt = [c \in Calls |-> 0]
    /\ args = [c \in Calls |-> "none"]
    /\ log = [c \in Calls |-> <<>>]
    /\ result = [c \in Calls |-> NoResult]
    /\ now \in StartInstants
    /\ ticks = 0
    /\ stamps = <<>>

NextClock ==
    \/ Tick
    \/ TimestampStr

SpecClock == InitClockSpec /\ [][NextClock]_vars

----------------------------------------------------------------------------
(* What the properties talk about *)

Invocations(c) == SelectSeq(log[c], LAMBDA x : x.ev = "invoke")

Waits(c) == SelectSeq(log[c], LAMBDA x : x.ev = "wait")

Delays(c) == [i \in 1..Len(Waits(c)) |-> Waits(c)[i].delay]

Done(c) == pc[c] \in {"returned", "raised"}

\* the call handed v back to its caller
Returns(c, v) ==
    result[c].kind = "return" /\ result[c].val = v /\ result[c].exc = NoExc

\* the call let the exception e escape to its caller
Propagates(c, e) == result[c].kind = "raise" /\ result[c].exc = e

\* the letters of "rate limit" in either case, a space or an underscore
\* between the words, somewhere in m
RateLimitFlavored(m) ==
    LET phrase == << {"r","R"}, {"a","A"}, {"t","T"}, {"e","E"}, {" ","_"},
                     {"l","L"}, {"i","I"}, {"m","M"}, {"i","I"}, {"t","T"} >>
    IN  \E i \in 1..(Len(m) - 9) : \A j \in 1..10 : m[i + j - 1] \in phrase[j]

\* the first n invocations all failed with a rate-limit-flavored error
RetryableUpTo(inv, n) ==
    \A i \in 1..n : ~inv[i].ok /\ RateLimitFlavored(inv[i].exc.msg)

IsDigit(ch) == \E d \in 1..10 : Digits[d] = ch

RECURSIVE DigitsValue(_)
DigitsValue(s) ==
    IF s = <<>> THEN 0
    ELSE 10 * DigitsValue(SubSeq(s, 1, Len(s) - 1))
         + (CHOOSE d \in 0..9 : Digits[d + 1] = s[Len(s)])

\* s holds the decimal numeral of n, not as part of a longer numeral
MentionsNumber(s, n) ==
    \E i \in 1..Len(s) : \E j \in i..Len(s) :
        /\ \A x \in i..j : IsDigit(s[x])
        /\ i = 1 \/ ~IsDigit(s[i - 1])
        /\ j = Len(s) \/ ~IsDigit(s[j + 1])
        /\ DigitsValue(SubSeq(s, i, j)) = n

\* initial_sleep_time * backoff_factor^i
Backoff(i) == RatMul(initial_sleep_time, RatPow(backoff_factor, i))

Max(a, b) == IF a > b THEN a ELSE b

----------------------------------------------------------------------------
(* Properties *)

\* C1: when the operation failed k times with a rate-limit-flavored error
\* and then succeeded, the call has returned that result after k + 1
\* invocations and k delays, k < max_retries, and the i-th delay is
\* initial_sleep_time * backoff_factor^i, however large.
C1_BackoffThenSuccess ==
    \A c \in Calls :
        LET inv == Invocations(c)
            k == Len(inv) - 1
            d == Delays(c)
        IN  (Len(inv) >= 1 /\ inv[Len(inv)].ok /\ RetryableUpTo(inv, k)) =>
                /\ k < max_retries
                /\ pc[c] = "returned"
                /\ Returns(c, inv[k + 1].val)
                /\ Len(d) = k
                /\ \A i \in 1..k : RatEq(d[i], Backoff(i))

C1_Witness ==
    \E c \in Calls :
        /\ pc[c] = "returned"
        /\ Len(Invocations(c)) = 3
        /\ Len(Delays(c)) = 2
        /\ backoff_factor = <<2, 1>>

\* C2: when every invocation failed with a rate-limit-flavored error and
\* max_retries >= 1, the operation is invoked at most max_retries times, and
\* a call that raised did so after exactly max_retries invocations, with the
\* wrapper's own error, whose message holds the numeral of max_retries.
C2_ExhaustedAfterMaxRetries ==
    \A c \in Calls :
        LET inv == Invocations(c)
        IN  (max_retries >= 1 /\ RetryableUpTo(inv, Len(inv))) =>
                /\ Len(inv) <= max_retries
                /\ pc[c] = "raised" =>
                    /\ Len(inv) = max_retries
                    /\ result[c].kind = "raise"
                    /\ result[c].exc.src = "wrapper"
                    /\ MentionsNumber(result[c].exc.msg, max_retries)

C2_Witness ==
    \E c \in Calls :
        /\ max_retries = 3
        /\ pc[c] = "raised"
        /\ Len(Invocations(c)) = 3
        /\ result[c].exc.src = "wrapper"

\* C3: the first attempt is not delayed, every wait of a call is followed
\* by another invocation (never by the end of the call), and a call with
\* max_retries = N >= 1 makes at most N - 1 waits.
C3_WaitOnlyBeforeRetry ==
    \A c \in Calls :
        /\ log[c] # <<>> => log[c][1].ev = "invoke"
        /\ \A i \in 1..(Len(log[c]) - 1) :
                log[c][i].ev = "wait" => log[c][i + 1].ev = "invoke"
        /\ (Done(c) /\ log[c] # <<>>) => log[c][Len(log[c])].ev # "wait"
        /\ max_retries >= 1 => Len(Waits(c)) <= max_retries - 1

\* C4: when the first invocation failed with an error that is not
\* rate-limit-flavored, the call has raised that very error after one
\* invocation and no wait.
C4_NonRetryableFirst ==
    \A c \in Calls :
        LET inv == Invocations(c)
        IN  (Len(inv) >= 1 /\ ~inv[1].ok
                /\ ~RateLimitFlavored(inv[1].exc.msg)) =>
                /\ pc[c] = "raised"
                /\ Propagates(c, inv[1].exc)
                /\ result[c].exc.at = 1
                /\ Len(inv) = 1
                /\ Len(Waits(c)) = 0

C4_Witness ==
    \E c \in Calls :
        /\ pc[c] = "raised"
        /\ Len(Invocations(c)) = 1
        /\ result[c].exc.src = "func"
        /\ result[c].exc.msg = RateLimitNoSep

\* C5: when the first invocation succeeded, the call has returned its
\* result after that one invocation and without any wait.
C5_SuccessFirst ==
    \A c \in Calls :
        LET inv == Invocations(c)
        IN  (Len(inv) >= 1 /\ inv[1].ok) =>
                /\ pc[c] = "returned"
                /\ Returns(c, inv[1].val)
                /\ Len(inv) = 1
                /\ Len(Waits(c)) = 0

C5_Witness ==
    \E c \in Calls :
        /\ pc[c] = "returned"
        /\ Len(Invocations(c)) = 1
        /\ result[c].val = "r2"

\* C6: a failure is followed by a wait exactly when its message holds
\* "rate limit" in any case with a space or an underscore between the
\* words; otherwise the call has raised it.  "Rate Limit exceeded",
\* "RATE_LIMIT" and "rate limit" are waited on, "ratelimit" is raised.
C6_Classification ==
    \A c \in Calls : \A i \in 1..Len(log[c]) :
        LET x == log[c][i]
            retried == i < Len(log[c]) /\ log[c][i + 1].ev = "wait"
            propagated == /\ i = Len(log[c])
                          /\ pc[c] = "raised"
                          /\ Propagates(c, x.exc)
        IN  (x.ev = "invoke" /\ ~x.ok) =>
                /\ retried <=> RateLimitFlavored(x.exc.msg)
                /\ propagated <=> ~RateLimitFlavored(x.exc.msg)
                /\ x.exc.msg \in {RateLimitExceeded, RateLimitUpper,
                                  RateLimitLower} => retried
                /\ x.exc.msg = RateLimitNoSep => propagated

C6_Witness ==
    /\ msgs = {RateLimitUpper}
    /\ pc[1] = "sleep"
    /\ Len(Waits(1)) = 2

\* C7: a call that was made ends, in exactly one of three ways: it returned
\* the result of its last invocation, it raised the error of its last
\* invocation, which is not rate-limit-flavored, or it raised the wrapper's
\* own error after max_retries rate-limit-flavored failures; and the
\* operation is never invoked more than max_retries times.
Success(c) ==
    LET inv == Invocations(c)
    IN  /\ pc[c] = "returned"
        /\ Len(inv) >= 1
        /\ inv[Len(inv)].ok
        /\ Returns(c, inv[Len(inv)].val)

NonRetryableError(c) ==
    LET inv == Invocations(c)
    IN  /\ pc[c] = "raised"
        /\ Len(inv) >= 1
        /\ ~inv[Len(inv)].ok
        /\ ~RateLimitFlavored(inv[Len(inv)].exc.msg)
        /\ Propagates(c, inv[Len(inv)].exc)

ExhaustedError(c) ==
    LET inv == Invocations(c)
    IN  /\ pc[c] = "raised"
        /\ Len(inv) = Max(max_retries, 0)
        /\ RetryableUpTo(inv, Len(inv))
        /\ result[c].kind = "raise"
        /\ result[c].exc.src = "wrapper"

OneEnding(c) ==
    Cardinality({k \in {"success", "nonretryable", "exhausted"} :
        \/ k = "success" /\ Success(c)
        \/ k = "nonretryable" /\ NonRetryableError(c)
        \/ k = "exhausted" /\ ExhaustedError(c)}) = 1

C7_Terminates ==
    /\ \A c \in Calls : (pc[c] # "idle") ~> Done(c)
    /\ [](\A c \in Calls :
            /\ Len(Invocations(c)) <= Max(max_retries, 0)
            /\ Done(c) => OneEnding(c))

C7_Witness ==
    /\ ExhaustedError(1)
    /\ max_retries = 2
    /\ Len(Waits(1)) = 2

\* C8: whatever the other calls did, a call that was made has made as many
\* loop iterations as its own invocations, its sleep_time is
\* initial_sleep_time * backoff_factor^k for its own k rate-limit-flavored
\* failures, its i-th delay is initial_sleep_time * backoff_factor^i, and
\* it ended as its own invocations say.
C8_IndependentCalls ==
    \A c \in Calls :
        LET inv == Invocations(c)
            k == Len(SelectSeq(inv, LAMBDA x :
                        ~x.ok /\ RateLimitFlavored(x.exc.msg)))
            d == Delays(c)
        IN  pc[c] # "idle" =>
                /\ attempt[c] = Len(inv)
                /\ RatEq(sleep_time[c], Backoff(k))
                /\ Len(d) = k
                /\ \A i \in 1..k : RatEq(d[i], Backoff(i))
                /\ pc[c] = "returned" => Success(c)
                /\ pc[c] = "raised" =>
                        NonRetryableError(c) \/ ExhaustedError(c)

C8_Witness ==
    \E c \in Calls : \E d \in Calls \ {c} :
        /\ pc[c] = "sleep"
        /\ Len(Waits(c)) = 2
        /\ pc[d] = "sleep"
        /\ Len(Waits(d)) = 1

\* C10: when the operation failed j times with a rate-limit-flavored error
\* and then with an error that is not, the call has raised that very error
\* after j + 1 invocations and j waits, and did nothing after it.
C10_NonRetryableAfterRetries ==
    \A c \in Calls :
        LET inv == Invocations(c)
            j == Len(inv) - 1
        IN  (Len(inv) >= 1 /\ RetryableUpTo(inv, j) /\ ~inv[j + 1].ok
                /\ ~RateLimitFlavored(inv[j + 1].exc.msg)) =>
                /\ pc[c] = "raised"
                /\ Propagates(c, inv[j + 1].exc)
                /\ result[c].exc.at = j + 1
                /\ Len(Waits(c)) = j
                /\ log[c][Len(log[c])] = inv[j + 1]

C10_Witness ==
    \E c \in Calls :
        /\ pc[c] = "raised"
        /\ result[c].exc.src = "func"
        /\ Len(Invocations(c)) = 3
        /\ Len(Waits(c)) = 2

\* C9: of two timestamps taken at instants t1 <= t2, the first is no
\* greater than the second as a string, and both have the fixed width
\* YYYY-MM-DD_HHMMSS.
Ord(ch) ==
    IF ch = "-" THEN 45
    ELSE IF ch = "_" THEN 95
    ELSE 47 + (CHOOSE d \in 1..10 : Digits[d] = ch)

\* a <= b for Python strings
StrLeq(a, b) ==
    \/ a = b
    \/ \E i \in 1..Len(b) :
        /\ \A j \in 1..(i - 1) : j <= Len(a) /\ a[j] = b[j]
        /\ i > Len(a) \/ Ord(a[i]) < Ord(b[i])

\* t1 <= t2 for instants
TimeLeq(t1, t2) ==
    \/ t1 = t2
    \/ \E i \in 1..6 :
        /\ \A j \in 1..(i - 1) : t1[j] = t2[j]
        /\ t1[i] < t2[i]

FixedWidth(s) ==
    /\ Len(s) = 17
    /\ \A i \in 1..17 :
        IF i \in {5, 8} THEN s[i] = "-"
        ELSE IF i = 11 THEN s[i] = "_"
        ELSE IsDigit(s[i])

C9_TimestampsSorted ==
    \A i \in 1..Len(stamps) :
        /\ FixedWidth(stamps[i].s)
        /\ \A j \in i..Len(stamps) :
            TimeLeq(stamps[i].t, stamps[j].t) =>
                StrLeq(stamps[i].s, stamps[j].s)

C9_Witness ==
    /\ Len(stamps) = 2
    /\ stamps[1].t[2] = 9
    /\ stamps[2].t[2] = 10
    /\ stamps[1].s # stamps[2].s

\* C11: an error that escapes a call is either the error of its last
\* invocation, which is not rate-limit-flavored, or the wrapper's own
\* exhausted-retries error; and an error that escapes after fewer than
\* max_retries invocations is of the first kind.
C11_RetryableNeverSurfaced ==
    \A c \in Calls :
        LET inv == Invocations(c)
            fromFunc == /\ Len(inv) >= 1
                        /\ ~inv[Len(inv)].ok
                        /\ result[c].exc = inv[Len(inv)].exc
                        /\ result[c].exc.src = "func"
                        /\ ~RateLimitFlavored(result[c].exc.msg)
            synthesized == /\ result[c].exc.src = "wrapper"
                           /\ \A i \in 1..Len(inv) :
                                result[c].exc # inv[i].exc
                           /\ RetryableUpTo(inv, Len(inv))
        IN  pc[c] = "raised" =>
                /\ result[c].kind = "raise"
                /\ fromFunc \/ synthesized
                /\ Len(inv) < max_retries => fromFunc

C11_Witness ==
    \E c \in Calls :
        /\ pc[c] = "raised"
        /\ result[c].exc.src = "wrapper"
        /\ Len(Invocations(c)) = 3
        /\ \E i \in 1..3 : Invocations(c)[i].exc.msg = RateLimitExceeded

\* C13: every invocation made by a call, the first and each retry, was
\* given the arguments the call was made with, and a call that returned
\* handed back the value of its last invocation unchanged.
C13_ArgumentsAndResultForwarded ==
    \A c \in Calls :
        LET inv == Invocations(c)
        IN  /\ \A i \in 1..Len(inv) :
                inv[i].args = args[c] /\ inv[i].args \in Arguments
            /\ pc[c] = "returned" =>
                /\ inv[Len(inv)].ok
                /\ inv[Len(inv)].val \in Results
                /\ Returns(c, inv[Len(inv)].val)

C13_Witness ==
    \E c \in Calls :
        /\ pc[c] = "returned"
        /\ args[c] = "a2"
        /\ Len(Invocations(c)) = 3
        /\ result[c].val = "r1"

\* C14: with max_retries <= 0 a call never invokes the operation and never
\* waits, it can only end by raising the wrapper's exhausted-retries
\* error, and a call that was made does end so.
C14_NoAttemptWithoutRetries ==
    /\ [](\A c \in Calls : max_retries <= 0 =>
            /\ log[c] = <<>>
            /\ pc[c] \in {"idle", "loop", "raised"}
            /\ pc[c] = "raised" =>
                /\ result[c].kind = "raise"
                /\ result[c].exc.src = "wrapper"
                /\ MentionsNumber(result[c].exc.msg,
                        IF max_retries < 0 THEN 0 - max_retries
                        ELSE max_retries))
    /\ \A c \in Calls :
        (max_retries <= 0 /\ pc[c] = "loop") ~> (pc[c] = "raised")

C14_Witness ==
    /\ max_retries = 0
    /\ pc[1] = "raised"
    /\ result[1].exc.src = "wrapper"
    /\ log[1] = <<>>

\* C12: two calls of one wrapper that both exhausted their retries raised
\* errors with the same message, whatever messages their invocations
\* failed with, and that message holds none of those messages.
FailureMessages(c) ==
    LET inv == Invocations(c)
    IN  [i \in 1..Len(inv) |-> inv[i].exc.msg]

C12_ExhaustedErrorCarriesOnlyLimit ==
    \A c \in Pair : \A d \in Pair :
        (ExhaustedError(c) /\ ExhaustedError(d)) =>
            /\ result[c].exc.msg = result[d].exc.msg
            /\ result[c].exc = result[d].exc
            /\ \A i \in 1..Len(FailureMessages(c)) :
                ~StrContains(FailureMessages(c)[i], result[c].exc.msg)

C12_Witness ==
    /\ ExhaustedError(1)
    /\ ExhaustedError(2)
    /\ max_retries = 2
    /\ FailureMessages(1) = <<RateLimitLower, RateLimitLower>>
    /\ FailureMessages(2) = <<RateLimitExceeded, RateLimitLower>>

\* C15: the wrapper's exhausted-retries error is not classified as a rate
\* limit, so in a wrapper around a wrapper the outer call never waits and
\* invokes the inner wrapper at most once; when the inner wrapper
\* exhausted its retries the outer call raised that very error; and the
\* operation is invoked at most max_retries times in all.
C15_ExhaustionNotRetriedByOuter ==
    /\ Len(Waits(Outer)) = 0
    /\ pc[Outer] # "sleep"
    /\ Len(Invocations(Outer)) <= 1
    /\ Len(Invocations(Inner)) <= Max(max_retries, 0)
    /\ (pc[Inner] = "raised" /\ result[Inner].exc.src = "wrapper") =>
        /\ ~IsRateLimit(result[Inner].exc)
        /\ ~RateLimitFlavored(result[Inner].exc.msg)
        /\ pc[Outer] \in {"calling", "raised"}
        /\ pc[Outer] = "raised" =>
            /\ Propagates(Outer, result[Inner].exc)
            /\ Len(Invocations(Outer)) = 1
            /\ attempt[Outer] = 1

C15_Witness ==
    /\ max_retries = 3
    /\ pc[Inner] = "raised"
    /\ result[Inner].exc.src = "wrapper"
    /\ Len(Invocations(Inner)) = 3
    /\ pc[Outer] = "raised"
    /\ result[Outer] = result[Inner]

====
